---- MODULE Spec2Model ----
(***************************************************************************)
(* Model of the gzip compressing handler of gowww/compress                 *)
(* (src/handler.go): Handler.ServeHTTP, the compressWriter it hands to     *)
(* the wrapped handler, the pool of gzip writers, and the real             *)
(* http.ResponseWriter the compressWriter wraps.                           *)
(*                                                                         *)
(* Strings are TLA+ strings; the string functions of the code (Atoi,       *)
(* IndexByte, ToLower, Contains) are computed character by character.      *)
(* A body chunk is a record [len, sig]: its length and the signature its   *)
(* first bytes carry, which is all that the code looks at.                 *)
(***************************************************************************)
EXTENDS Integers, Sequences, FiniteSets, TLC

(* ---------------- program constants ---------------- *)

gzippableMinSize == 1400

notGzippableTypes ==
    { "application/font-woff", "application/gzip", "application/pdf",
      "application/zip", "audio/mp4", "audio/mpeg", "audio/webm",
      "image/gif", "image/jpeg", "image/png", "image/webp", "video/h264",
      "video/mp4", "video/mpeg", "video/ogg", "video/vp8", "video/webm" }

StatusOK == 200

StatusTeapot == 418

(* ---------------- bounds ---------------- *)

\* Request slots (in-flight requests the model can hold).
NumReqs == 2

\* Gzip writers that gzipPool.New can construct.
MaxEnc == 2

\* Calls (WriteHeader, Write, capability calls) a wrapped handler makes.
MaxOps == 3

Reqs == 1..NumReqs

Encs == 1..MaxEnc

(* ---------------- inputs ---------------- *)

\* Accept-Encoding values of the request.
AcceptEncodings == { "deflate, gzip", "otherThanGzip" }

\* Sec-WebSocket-Key values of the request.
WebSocketKeys == { "", "dGhlIHNhbXBsZQ==" }

\* Content-Encoding values a wrapped handler sets itself.
AppContentEncodings == { "otherThanGzip" }

\* Content-Length values a wrapped handler sets itself.
AppContentLengths == { "1399", "1400" }

\* Content-Type values a wrapped handler sets itself.
AppContentTypes == { "text/css", "image/jpeg", "Image/PNG; a=b" }

\* Status codes a wrapped handler passes to WriteHeader.
Statuses == { StatusOK, StatusTeapot }

\* Body chunks a wrapped handler passes to Write.
Chunks ==
    { [len |-> gzippableMinSize - 1, sig |-> "html"],
      [len |-> gzippableMinSize, sig |-> "html"],
      [len |-> gzippableMinSize + 5, sig |-> "pdf"] }

\* Vary values the response carries when ServeHTTP is entered.
Varies == { << >>, << "Cookie" >> }

\* Optional interfaces of a response writer.
Capabilities == { "Flusher", "Hijacker", "Pusher", "CloseNotifier" }

(* ---------------- string functions ---------------- *)

Digits == "0123456789"

UpperLetters == "ABCDEFGHIJKLMNOPQRSTUVWXYZ"

LowerLetters == "abcdefghijklmnopqrstuvwxyz"

CharAt(s, i) == SubSeq(s, i, i)

\* Position of the one-character string c in s, 0 when absent.
PosIn(c, s) ==
    IF \E i \in 1..Len(s) : CharAt(s, i) = c
    THEN CHOOSE i \in 1..Len(s) :
            /\ CharAt(s, i) = c
            /\ \A j \in 1..(i - 1) : CharAt(s, j) # c
    ELSE 0

\* strings.IndexByte(s, c), 0-based, -1 when absent.
IndexByte(s, c) == PosIn(c, s) - 1

\* The upper-case ASCII letters, one by one.
UpperSet == { CharAt(UpperLetters, i) : i \in 1..Len(UpperLetters) }

RECURSIVE ToLower(_)
\* strings.ToLower(s) for ASCII strings.
ToLower(s) ==
    IF s = "" THEN ""
    ELSE LET c == Head(s)
         IN (IF c \in UpperSet
             THEN CharAt(LowerLetters, PosIn(c, UpperLetters)) ELSE c)
                \o ToLower(Tail(s))

\* strings.Contains(s, sub).
Contains(s, sub) ==
    \E i \in 1..(Len(s) - Len(sub) + 1) : SubSeq(s, i, i + Len(sub) - 1) = sub

RECURSIVE ParseDigits(_, _)
\* Value of a string of decimal digits, -1 on a non-digit.
ParseDigits(s, acc) ==
    IF s = "" THEN acc
    ELSE LET p == PosIn(Head(s), Digits)
         IN IF p = 0 THEN -1 ELSE ParseDigits(Tail(s), acc * 10 + (p - 1))

\* The value strconv.Atoi(s) returns; 0 on a syntax error (the code drops the
\* error). The strings of the model stay far below the integer range.
Atoi(s) ==
    LET neg == s # "" /\ Head(s) = "-"
        signed == s # "" /\ Head(s) \in { "-", "+" }
        body == IF signed THEN Tail(s) ELSE s
        v == IF body = "" THEN -1 ELSE ParseDigits(body, 0)
    IN IF v = -1 THEN 0 ELSE IF neg THEN 0 - v ELSE v

\* http.DetectContentType(b): the media type sniffed from the first bytes.
DetectContentType(b) ==
    IF b.len = 0 THEN "text/plain; charset=utf-8"
    ELSE CASE b.sig = "html" -> "text/html; charset=utf-8"
           [] b.sig = "pdf" -> "application/pdf"
           [] b.sig = "zero" -> "application/octet-stream"
           [] OTHER -> "text/plain; charset=utf-8"

\* The media type without its parameters, lower-cased (handler.go:130-133).
PrimaryType(ct) ==
    LET i == IndexByte(ct, ";")
    IN ToLower(IF i >= 0 THEN SubSeq(ct, 1, i) ELSE ct)

(* ---------------- state ---------------- *)

VARIABLES
    live,    \* the request slots in use
    inputs,  \* the values requests, writers and handlers are drawn from
    pc,      \* pc[r]: where ServeHTTP of request r stands
    req,     \* req[r]: the request headers ServeHTTP reads
    hdr,     \* hdr[r]: the header map of the real response writer
    rw,      \* rw[r]: the real response writer (status, body, connection)
    cw,      \* cw[r]: the compressWriter of request r
    enc,     \* enc[e]: the gzip writers constructed so far
    pool,    \* gzipPool: the idle gzip writers
    h,       \* h[r]: what the wrapped handler of request r has done so far
    trace    \* trace[r]: the calls made on the pool, on the gzip writer and
             \* of close() while serving request r, in order

vars == << live, inputs, pc, req, hdr, rw, cw, enc, pool, h, trace >>

\* The capability sets of the response writers a server passes in: a bare
\* writer, httptest.ResponseRecorder, an HTTP/1 and an HTTP/2 response.
CapSets ==
    { {}, { "Flusher" }, { "Flusher", "Hijacker", "CloseNotifier" },
      { "Flusher", "Pusher", "CloseNotifier" } }

\* Every input of the model.
AllInputs ==
    [aes |-> AcceptEncodings, wskeys |-> WebSocketKeys, capsets |-> CapSets,
     ces |-> AppContentEncodings, cls |-> AppContentLengths,
     cts |-> AppContentTypes, statuses |-> Statuses, chunks |-> Chunks,
     varies |-> Varies]

NoRequest == [ae |-> "", ws |-> ""]

NoHeaders == [ce |-> "", cl |-> "", ct |-> "", vary |-> << >>]

\* A response writer nothing was sent on. wh lists the WriteHeader calls it
\* received, sent is the header map as it stood when the status was
\* committed, nw counts the Write calls it received and lastRet is what the
\* last of them returned.
NewResponseWriter(cs) ==
    [status |-> 0, body |-> << >>, broken |-> FALSE, caps |-> cs, called |-> {},
     wh |-> << >>, sent |-> NoHeaders, nw |-> 0, lastRet |-> ""]

\* Variant: a compressWriter that starts with gzipUse set.
NoWriterUsing ==
    [made |-> FALSE, gzipWriter |-> 0, gzipDetect |-> FALSE,
     gzipUse |-> TRUE, status |-> 0]

\* The zero compressWriter; made is FALSE until ServeHTTP constructs it.
NoWriter ==
    [made |-> FALSE, gzipWriter |-> 0, gzipDetect |-> FALSE,
     gzipUse |-> FALSE, status |-> 0]

\* A slot of the gzip writers that gzipPool.New has not constructed yet.
NoGzipWriter ==
    [made |-> FALSE, w |-> 0, closed |-> FALSE, err |-> FALSE]

\* gzip.NewWriter(nil): bound to no writer.
NewGzipWriter == [NoGzipWriter EXCEPT !.made = TRUE]

NoHandler ==
    [w |-> "none", ops |-> 0, written |-> << >>, ret |-> "",
     app |-> [ce |-> "", cl |-> "", ct |-> ""],
     preWH |-> << >>, postWH |-> << >>, caps |-> {}, called |-> {}, exit |-> "",
     vary0 |-> << >>]

InitCommon ==
    /\ pc = [r \in Reqs |-> "idle"]
    /\ req = [r \in Reqs |-> NoRequest]
    /\ hdr = [r \in Reqs |-> NoHeaders]
    /\ rw = [r \in Reqs |-> NewResponseWriter({})]
    /\ cw = [r \in Reqs |-> NoWriter]
    /\ enc = [e \in Encs |-> NoGzipWriter]
    /\ pool = {}
    /\ h = [r \in Reqs |-> NoHandler]
    /\ trace = [r \in Reqs |-> << >>]

\* One request over an httptest.ResponseRecorder, with every input the
\* request and the handler can give.
Init ==
    /\ live = { 1 }
    /\ inputs = [AllInputs EXCEPT !.capsets = { { "Flusher" } },
                                  !.varies = { << >> }]
    /\ InitCommon

\* One request over each kind of response writer, with a handler that sends
\* one kind of response.
InitCaps ==
    /\ live = { 1 }
    /\ inputs = [AllInputs EXCEPT
                   !.wskeys = { "" }, !.cls = { "1400" }, !.cts = { "text/css" },
                   !.statuses = { StatusTeapot },
                   !.chunks = { [len |-> gzippableMinSize, sig |-> "html"] }]
    /\ InitCommon

\* Every request slot in use at once: requests that accept gzip, served by
\* handlers that write chunks of gzippableMinSize bytes.
InitPool ==
    /\ live = Reqs
    /\ inputs = [AllInputs EXCEPT
                   !.aes = { "deflate, gzip" }, !.wskeys = { "" },
                   !.capsets = { { "Flusher" } }, !.varies = { << >> },
                   !.chunks = { [len |-> gzippableMinSize, sig |-> "html"] }]
    /\ InitCommon

(* ---------------- the real response writer ---------------- *)

\* The response writer commits status s with the header map hd, unless a
\* status was committed before: the first status is the committed one.
RWCommit(w, s, hd) ==
    IF w.status = 0 THEN [w EXCEPT !.status = s, !.sent = hd] ELSE w

\* http.ResponseWriter.WriteHeader(s), hd being the header map at the call.
RWWriteHeader(w, s, hd) == [RWCommit(w, s, hd) EXCEPT !.wh = Append(@, s)]

\* What Write returns.
RWWriteRet(w) == IF w.broken THEN "err" ELSE "ok"

\* http.ResponseWriter.Write: commits 200 when no status was committed, then
\* sends the bytes unless the connection is broken.
RWWrite(w, item, hd) ==
    LET w1 == [RWCommit(w, StatusOK, hd) EXCEPT
                 !.nw = @ + 1, !.lastRet = RWWriteRet(w)]
    IN IF w.broken THEN w1 ELSE [w1 EXCEPT !.body = Append(@, item)]

(* ---------------- gzip.Writer ---------------- *)

\* Variant: Reset clears the state of the writer and binds it only when it
\* was bound to nothing before.
GzResetKeepTarget(z, target) ==
    [z EXCEPT !.w = IF @ = 0 THEN target ELSE @, !.closed = FALSE, !.err = FALSE]

\* gzip.Writer.Reset(w): binds the writer to w and clears its state.
GzReset(z, target) ==
    [z EXCEPT !.w = target, !.closed = FALSE, !.err = FALSE]

\* gzip.Writer.Write(b), the writer's side.
GzWrite(z, w) ==
    IF z.err \/ z.closed THEN [z EXCEPT !.err = TRUE]
    ELSE [z EXCEPT !.err = w.broken]

\* gzip.Writer.Write(b), the side of the response writer it is bound to.
GzWriteOut(z, w, b, hd) ==
    IF z.err \/ z.closed THEN w ELSE RWWrite(w, << "gz", b >>, hd)

GzWriteRet(z, w) == IF z.err \/ z.closed \/ w.broken THEN "err" ELSE "ok"

\* gzip.Writer.Close(), the writer's side.
GzClose(z, w) ==
    IF z.err \/ z.closed THEN z
    ELSE [z EXCEPT !.closed = TRUE, !.err = w.broken]

\* gzip.Writer.Close(), the side of the response writer: the end of stream.
GzCloseOut(z, w, hd) ==
    IF z.err \/ z.closed THEN w ELSE RWWrite(w, << "gzeos" >>, hd)

\* What gzip.Writer.Close() returns.
GzCloseRet(z, w) ==
    IF z.err THEN "err"
    ELSE IF z.closed THEN "ok"
    ELSE IF w.broken THEN "err" ELSE "ok"

(* ---------------- compressWriter ---------------- *)

\* Variant: only a gzip Content-Encoding counts as already encoded.
AlreadyEncodedGzipOnly(hd) == hd.ce = "gzip"

\* handler.go:113: the response carries a Content-Encoding already.
AlreadyEncoded(hd) == hd.ce # ""

\* Variant: the threshold itself counts as too small.
LengthTooSmallOffByOne(hd, b) == Atoi(hd.cl) <= 0 /\ b.len <= gzippableMinSize

\* handler.go:118-123: no positive Content-Length and a first chunk below
\* gzippableMinSize.
LengthTooSmall(hd, b) == Atoi(hd.cl) <= 0 /\ b.len < gzippableMinSize

\* Variant: the type is sniffed whatever the length of the response.
TypeSniffedAnyLength(hd, b) == ~AlreadyEncoded(hd) /\ hd.ct = ""

\* handler.go:126-128: the type is sniffed when the detection gets as far as
\* the type check and no Content-Type is set.
TypeSniffed(hd, b) ==
    /\ ~AlreadyEncoded(hd)
    /\ ~LengthTooSmall(hd, b)
    /\ hd.ct = ""

\* handler.go:126-138: the denylist is looked up inside the branch that
\* sniffs the type.
TypeNotGzippable(hd, b) ==
    /\ hd.ct = ""
    /\ PrimaryType(DetectContentType(b)) \in notGzippableTypes

\* handler.go:111-143: whether the first Write reaches gzipUse = true.
GzipDetection(hd, b) ==
    /\ ~AlreadyEncoded(hd)
    /\ ~LengthTooSmall(hd, b)
    /\ ~TypeNotGzippable(hd, b)

\* handler.go:128,140-141: the headers the first Write leaves behind.
DetectHeaders(hd, b) ==
    LET h1 == IF TypeSniffed(hd, b)
              THEN [hd EXCEPT !.ct = DetectContentType(b)] ELSE hd
    IN IF GzipDetection(hd, b)
       THEN [h1 EXCEPT !.cl = "", !.ce = "gzip"] ELSE h1

\* Variant: commits 200 whatever status was cached.
writePostponedHeaderOK(c, w, hd) == RWWriteHeader(w, StatusOK, hd)

\* Variant: commits 200 when no status was cached.
writePostponedHeaderDefault(c, w, hd) ==
    RWWriteHeader(w, IF c.status > 0 THEN c.status ELSE StatusOK, hd)

\* handler.go:102-106: commits the cached status, when there is one.
writePostponedHeader(c, w, hd) ==
    IF c.status > 0 THEN RWWriteHeader(w, c.status, hd) ELSE w

\* Variant: the first status passed to WriteHeader is the one kept.
CwWriteHeaderKeepFirst(c, s) == IF c.status > 0 THEN c ELSE [c EXCEPT !.status = s]

\* Variant: a WriteHeader that comes after the first Write is dropped.
CwWriteHeaderDropLate(c, s) == IF c.gzipDetect THEN c ELSE [c EXCEPT !.status = s]

\* handler.go:97-99: WriteHeader caches the status.
CwWriteHeader(c, s) == [c EXCEPT !.status = s]

\* Variant: Write returns no error whatever the writer underneath returned.
WriteResultNil(use, gzRet, rwRet) == "ok"

\* handler.go:150-153: Write returns what the writer it hands b to returns.
WriteResult(use, gzRet, rwRet) == IF use THEN gzRet ELSE rwRet

\* Variant: the first Write commits the cached status before it changes the
\* headers.
CwWriteCommitFirst(r, b) ==
    LET c == cw[r]
        e == c.gzipWriter
        first == ~c.gzipDetect
        use == IF first THEN GzipDetection(hdr[r], b) ELSE c.gzipUse
        hd1 == IF first THEN DetectHeaders(hdr[r], b) ELSE hdr[r]
        enc1 == IF first /\ use THEN [enc EXCEPT ![e] = GzReset(@, r)] ELSE enc
        rw1 == IF first
               THEN [rw EXCEPT ![r] = writePostponedHeader(c, @, hdr[r])] ELSE rw
        t == IF use THEN enc1[e].w ELSE r
        gzRet == GzWriteRet(enc1[e], rw1[t])
    IN /\ hdr' = [hdr EXCEPT ![r] = hd1]
       /\ cw' = [cw EXCEPT ![r].gzipDetect = TRUE, ![r].gzipUse = use]
       /\ trace' = [trace EXCEPT ![r] =
                       (IF first /\ use THEN Append(@, << "Reset", e >>) ELSE @)
                       \o (IF use THEN << << "Write", e, b, gzRet >> >>
                           ELSE << >>)]
       /\ enc' = IF use THEN [enc1 EXCEPT ![e] = GzWrite(@, rw1[t])] ELSE enc1
       /\ rw' = IF use
                THEN [rw1 EXCEPT ![t] = GzWriteOut(enc1[e], @, b, hd1)]
                ELSE [rw1 EXCEPT ![r] = RWWrite(@, << "raw", b >>, hd1)]
       /\ h' = [h EXCEPT ![r].ops = @ + 1,
                         ![r].written = Append(@, b),
                         ![r].ret = WriteResult(use, gzRet, RWWriteRet(rw1[r]))]

\* Variant: every Write runs the detection again.
CwWriteRedetect(r, b) ==
    LET c == cw[r]
        e == c.gzipWriter
        first == TRUE
        use == IF first THEN GzipDetection(hdr[r], b) ELSE c.gzipUse
        hd1 == IF first THEN DetectHeaders(hdr[r], b) ELSE hdr[r]
        enc1 == IF first /\ use THEN [enc EXCEPT ![e] = GzReset(@, r)] ELSE enc
        rw1 == IF first
               THEN [rw EXCEPT ![r] = writePostponedHeader(c, @, hd1)] ELSE rw
        t == IF use THEN enc1[e].w ELSE r
        gzRet == GzWriteRet(enc1[e], rw1[t])
    IN /\ hdr' = [hdr EXCEPT ![r] = hd1]
       /\ cw' = [cw EXCEPT ![r].gzipDetect = TRUE, ![r].gzipUse = use]
       /\ trace' = [trace EXCEPT ![r] =
                       (IF first /\ use THEN Append(@, << "Reset", e >>) ELSE @)
                       \o (IF use THEN << << "Write", e, b, gzRet >> >>
                           ELSE << >>)]
       /\ enc' = IF use THEN [enc1 EXCEPT ![e] = GzWrite(@, rw1[t])] ELSE enc1
       /\ rw' = IF use
                THEN [rw1 EXCEPT ![t] = GzWriteOut(enc1[e], @, b, hd1)]
                ELSE [rw1 EXCEPT ![r] = RWWrite(@, << "raw", b >>, hd1)]
       /\ h' = [h EXCEPT ![r].ops = @ + 1,
                         ![r].written = Append(@, b),
                         ![r].ret = WriteResult(use, gzRet, RWWriteRet(rw1[r]))]

\* handler.go:110-154: compressWriter.Write(b) of request r.
CwWrite(r, b) ==
    LET c == cw[r]
        e == c.gzipWriter
        first == ~c.gzipDetect
        use == IF first THEN GzipDetection(hdr[r], b) ELSE c.gzipUse
        hd1 == IF first THEN DetectHeaders(hdr[r], b) ELSE hdr[r]
        enc1 == IF first /\ use THEN [enc EXCEPT ![e] = GzReset(@, r)] ELSE enc
        rw1 == IF first
               THEN [rw EXCEPT ![r] = writePostponedHeader(c, @, hd1)] ELSE rw
        t == IF use THEN enc1[e].w ELSE r
        gzRet == GzWriteRet(enc1[e], rw1[t])
    IN /\ hdr' = [hdr EXCEPT ![r] = hd1]
       /\ cw' = [cw EXCEPT ![r].gzipDetect = TRUE, ![r].gzipUse = use]
       /\ trace' = [trace EXCEPT ![r] =
                       (IF first /\ use THEN Append(@, << "Reset", e >>) ELSE @)
                       \o (IF use THEN << << "Write", e, b, gzRet >> >>
                           ELSE << >>)]
       /\ enc' = IF use THEN [enc1 EXCEPT ![e] = GzWrite(@, rw1[t])] ELSE enc1
       /\ rw' = IF use
                THEN [rw1 EXCEPT ![t] = GzWriteOut(enc1[e], @, b, hd1)]
                ELSE [rw1 EXCEPT ![r] = RWWrite(@, << "raw", b >>, hd1)]
       /\ h' = [h EXCEPT ![r].ops = @ + 1,
                         ![r].written = Append(@, b),
                         ![r].ret = WriteResult(use, gzRet, RWWriteRet(rw1[r]))]

\* Variant: close() closes the gzip writer and never commits a cached status.
CwCloseGzipOnly(r) ==
    LET e == cw[r].gzipWriter
        t == enc[e].w
    IN IF cw[r].gzipUse
       THEN /\ enc' = [enc EXCEPT ![e] = GzClose(@, rw[t])]
            /\ rw' = [rw EXCEPT ![t] = GzCloseOut(enc[e], @, hdr[t])]
            /\ trace' = [trace EXCEPT ![r] =
                            @ \o << << "close" >>,
                                    << "Close", e, GzCloseRet(enc[e], rw[t]) >> >>]
       ELSE /\ enc' = enc
            /\ rw' = rw
            /\ trace' = [trace EXCEPT ![r] = Append(@, << "close" >>)]

\* Variant: close() commits a cached status and never closes the gzip writer.
CwCloseHeaderOnly(r) ==
    /\ enc' = enc
    /\ rw' = IF ~cw[r].gzipDetect
             THEN [rw EXCEPT ![r] = writePostponedHeader(cw[r], @, hdr[r])]
             ELSE rw
    /\ trace' = [trace EXCEPT ![r] = Append(@, << "close" >>)]

\* Variant: close() commits the cached status whether or not a Write came
\* before.
CwCloseCommitAlways(r) ==
    LET c == cw[r]
        e == c.gzipWriter
        rw1 == IF TRUE
               THEN [rw EXCEPT ![r] = writePostponedHeader(c, @, hdr[r])]
               ELSE rw
        t == enc[e].w
    IN IF c.gzipUse
       THEN /\ enc' = [enc EXCEPT ![e] = GzClose(@, rw1[t])]
            /\ rw' = [rw1 EXCEPT ![t] = GzCloseOut(enc[e], @, hdr[t])]
            /\ trace' = [trace EXCEPT ![r] =
                            @ \o << << "close" >>,
                                    << "Close", e, GzCloseRet(enc[e], rw1[t]) >> >>]
       ELSE /\ enc' = enc
            /\ rw' = rw1
            /\ trace' = [trace EXCEPT ![r] = Append(@, << "close" >>)]

\* handler.go:157-165: close() has no result; this is what its caller gets
\* when gzip.Writer.Close() returned gzRet.
CwCloseRet(gzRet) == "none"

\* Variant: close() binds the gzip writer to the real writer and closes it,
\* whether or not the response was compressed.
CwCloseFinalizeAlways(r) ==
    LET c == cw[r]
        e == c.gzipWriter
        rw1 == IF ~c.gzipDetect
               THEN [rw EXCEPT ![r] = writePostponedHeader(c, @, hdr[r])]
               ELSE rw
        z == IF c.gzipUse THEN enc[e] ELSE GzReset(enc[e], r)
    IN /\ enc' = [enc EXCEPT ![e] = GzClose(z, rw1[r])]
       /\ rw' = [rw1 EXCEPT ![r] = GzCloseOut(z, @, hdr[r])]
       /\ trace' = [trace EXCEPT ![r] =
                       @ \o << << "close" >>,
                               << "Close", e, GzCloseRet(z, rw1[r]) >> >>]

\* handler.go:157-165: compressWriter.close() of request r, as ServeHTTP
\* calls it.
CwClose(r) ==
    LET c == cw[r]
        e == c.gzipWriter
        rw1 == IF ~c.gzipDetect
               THEN [rw EXCEPT ![r] = writePostponedHeader(c, @, hdr[r])]
               ELSE rw
        t == enc[e].w
    IN IF c.gzipUse
       THEN /\ enc' = [enc EXCEPT ![e] = GzClose(@, rw1[t])]
            /\ rw' = [rw1 EXCEPT ![t] = GzCloseOut(enc[e], @, hdr[t])]
            /\ trace' = [trace EXCEPT ![r] =
                            @ \o << << "close" >>,
                                    << "Close", e, GzCloseRet(enc[e], rw1[t]) >> >>]
       ELSE /\ enc' = enc
            /\ rw' = rw1
            /\ trace' = [trace EXCEPT ![r] = Append(@, << "close" >>)]

\* Variant: the compressWriter exposes every optional interface.
CwCapabilitiesAll(w) == Capabilities

\* The optional interfaces the compressWriter exposes over the real writer w.
CwCapabilities(w) == w.caps

(* ---------------- Handler.ServeHTTP ---------------- *)

\* Variant: the header value replaces the values already present.
HeaderSet(vs, v) == << v >>

\* http.Header.Add: the value is appended to the values already present.
HeaderAdd(vs, v) == Append(vs, v)

\* Variant: the Sec-WebSocket-Key header is not looked at.
SkipCompressNoWebSocket(q) == ~Contains(q.ae, "gzip")

\* Variant: Accept-Encoding is matched without regard to case.
SkipCompressFold(q) == ~Contains(ToLower(q.ae), "gzip") \/ q.ws # ""

\* handler.go:71: the request is passed on without a compressWriter.
SkipCompress(q) == ~Contains(q.ae, "gzip") \/ q.ws # ""

\* Variant: Get hands out any gzip writer constructed so far, idle or not.
PoolGetChoicesAnyMade ==
    { e \in Encs : enc[e].made }
        \cup (IF \E e \in Encs : ~enc[e].made
              THEN { CHOOSE e \in Encs :
                       ~enc[e].made /\ \A f \in Encs : ~enc[f].made => e <= f }
              ELSE {})

\* gzipPool.Get: an idle gzip writer, or one that gzipPool.New constructs.
PoolGetChoices ==
    pool \cup (IF \E e \in Encs : ~enc[e].made
               THEN { CHOOSE e \in Encs :
                        ~enc[e].made /\ \A f \in Encs : ~enc[f].made => e <= f }
               ELSE {})

\* handler.go:68-83: ServeHTTP up to the call of the wrapped handler.
ServeHTTP(r) ==
    /\ pc[r] = "idle"
    /\ \E ae \in inputs.aes, ws \in inputs.wskeys, cs \in inputs.capsets,
          v0 \in inputs.varies :
         LET q == [ae |-> ae, ws |-> ws]
         IN /\ req' = [req EXCEPT ![r] = q]
            /\ hdr' = [hdr EXCEPT ![r].vary = HeaderAdd(v0, "Accept-Encoding")]
            /\ rw' = [rw EXCEPT ![r] = NewResponseWriter(cs)]
            /\ IF SkipCompress(q)
               THEN /\ h' = [h EXCEPT ![r].w = "rw", ![r].caps = cs,
                                        ![r].vary0 = v0]
                    /\ UNCHANGED << cw, enc, pool, trace >>
               ELSE \E e \in PoolGetChoices :
                      /\ pool' = pool \ { e }
                      /\ enc' = IF enc[e].made THEN enc
                                ELSE [enc EXCEPT ![e] = NewGzipWriter]
                      /\ cw' = [cw EXCEPT ![r] =
                                  [NoWriter EXCEPT !.made = TRUE, !.gzipWriter = e]]
                      /\ trace' = [trace EXCEPT ![r] = Append(@, << "Get", e >>)]
                      /\ h' = [h EXCEPT ![r].w = "cw", ![r].vary0 = v0,
                                        ![r].caps = CwCapabilities(NewResponseWriter(cs))]
    /\ pc' = [pc EXCEPT ![r] = "handler"]
    /\ UNCHANGED << live, inputs >>

\* The wrapped handler sets a response header before its first Write.
HandlerSetContentEncoding(r) ==
    /\ pc[r] = "handler" /\ h[r].written = << >> /\ hdr[r].ce = ""
    /\ \E v \in inputs.ces :
         /\ hdr' = [hdr EXCEPT ![r].ce = v]
         /\ h' = [h EXCEPT ![r].app.ce = v]
    /\ UNCHANGED << live, inputs, pc, req, rw, cw, enc, pool, trace >>

HandlerSetContentLength(r) ==
    /\ pc[r] = "handler" /\ h[r].written = << >> /\ hdr[r].cl = ""
    /\ \E v \in inputs.cls :
         /\ hdr' = [hdr EXCEPT ![r].cl = v]
         /\ h' = [h EXCEPT ![r].app.cl = v]
    /\ UNCHANGED << live, inputs, pc, req, rw, cw, enc, pool, trace >>

HandlerSetContentType(r) ==
    /\ pc[r] = "handler" /\ h[r].written = << >> /\ hdr[r].ct = ""
    /\ \E v \in inputs.cts :
         /\ hdr' = [hdr EXCEPT ![r].ct = v]
         /\ h' = [h EXCEPT ![r].app.ct = v]
    /\ UNCHANGED << live, inputs, pc, req, rw, cw, enc, pool, trace >>

\* The wrapped handler calls WriteHeader(s) on the writer it was given.
HandlerWriteHeader(r) ==
    /\ pc[r] = "handler" /\ h[r].ops < MaxOps
    /\ \E s \in inputs.statuses :
         /\ IF h[r].w = "cw"
            THEN /\ cw' = [cw EXCEPT ![r] = CwWriteHeader(@, s)]
                 /\ rw' = rw
            ELSE /\ rw' = [rw EXCEPT ![r] = RWWriteHeader(@, s, hdr[r])]
                 /\ cw' = cw
         /\ h' = IF h[r].written = << >>
                 THEN [h EXCEPT ![r].ops = @ + 1, ![r].preWH = Append(@, s)]
                 ELSE [h EXCEPT ![r].ops = @ + 1, ![r].postWH = Append(@, s)]
    /\ UNCHANGED << live, inputs, pc, req, hdr, enc, pool, trace >>

\* The wrapped handler calls Write(b) on the writer it was given.
HandlerWrite(r) ==
    /\ pc[r] = "handler" /\ h[r].ops < MaxOps
    /\ \E b \in inputs.chunks :
         IF h[r].w = "cw"
         THEN CwWrite(r, b)
         ELSE /\ rw' = [rw EXCEPT ![r] = RWWrite(@, << "raw", b >>, hdr[r])]
              /\ h' = [h EXCEPT ![r].ops = @ + 1,
                                ![r].written = Append(@, b),
                                ![r].ret = RWWriteRet(rw[r])]
              /\ UNCHANGED << hdr, cw, enc, trace >>
    /\ UNCHANGED << live, inputs, pc, req, pool >>

\* The wrapped handler asserts an optional interface on its writer and calls
\* it; the call ends on the real writer.
HandlerCapability(r) ==
    /\ pc[r] = "handler" /\ h[r].ops < MaxOps
    /\ \E c \in h[r].caps :
         /\ rw' = [rw EXCEPT ![r].called = @ \cup { c }]
         /\ h' = [h EXCEPT ![r].ops = @ + 1, ![r].called = @ \cup { c }]
    /\ UNCHANGED << live, inputs, pc, req, hdr, cw, enc, pool, trace >>

\* The connection of the real writer breaks: its writes fail from now on.
ConnBreak(r) ==
    /\ pc[r] = "handler" /\ ~rw[r].broken
    /\ rw' = [rw EXCEPT ![r].broken = TRUE]
    /\ UNCHANGED << live, inputs, pc, req, hdr, cw, enc, pool, h, trace >>

\* Variant: close() and Put are not deferred, a panic passes them by.
HandlerExitNoDefer(r) ==
    /\ pc[r] = "handler"
    /\ \E x \in { "return", "panic" } :
         /\ h' = [h EXCEPT ![r].exit = x]
         /\ pc' = [pc EXCEPT ![r] =
                     IF h[r].w = "cw" /\ x = "return" THEN "deferClose" ELSE "done"]
    /\ UNCHANGED << live, inputs, req, hdr, rw, cw, enc, pool, trace >>

\* The wrapped handler returns, or panics: the deferred calls run next.
HandlerExit(r) ==
    /\ pc[r] = "handler"
    /\ \E x \in { "return", "panic" } : h' = [h EXCEPT ![r].exit = x]
    /\ pc' = [pc EXCEPT ![r] = IF h[r].w = "cw" THEN "deferClose" ELSE "done"]
    /\ UNCHANGED << live, inputs, req, hdr, rw, cw, enc, pool, trace >>

\* Variant: the gzip writer is put back before close() runs.
DeferClosePutFirst(r) ==
    LET c == cw[r]
        e == c.gzipWriter
        rw1 == IF ~c.gzipDetect
               THEN [rw EXCEPT ![r] = writePostponedHeader(c, @, hdr[r])]
               ELSE rw
    IN /\ pc[r] = "deferClose"
       /\ pool' = pool \cup { e }
       /\ enc' = IF c.gzipUse
                 THEN [enc EXCEPT ![e] = GzClose(@, rw1[r])] ELSE enc
       /\ rw' = IF c.gzipUse
                THEN [rw1 EXCEPT ![r] = GzCloseOut(enc[e], @, hdr[r])] ELSE rw1
       /\ trace' = [trace EXCEPT ![r] =
                       @ \o << << "Put", e >>, << "close" >> >>
                         \o (IF c.gzipUse
                             THEN << << "Close", e, GzCloseRet(enc[e], rw1[r]) >> >>
                             ELSE << >>)]
       /\ pc' = [pc EXCEPT ![r] = "done"]
       /\ UNCHANGED << live, inputs, req, hdr, cw, h >>

\* handler.go:81: the deferred cw.close().
DeferClose(r) ==
    /\ pc[r] = "deferClose"
    /\ CwClose(r)
    /\ pc' = [pc EXCEPT ![r] = "deferPut"]
    /\ UNCHANGED << live, inputs, req, hdr, cw, pool, h >>

\* handler.go:80: the deferred gzipPool.Put(cw.gzipWriter).
DeferPut(r) ==
    /\ pc[r] = "deferPut"
    /\ pool' = pool \cup { cw[r].gzipWriter }
    /\ trace' = [trace EXCEPT ![r] = Append(@, << "Put", cw[r].gzipWriter >>)]
    /\ pc' = [pc EXCEPT ![r] = "done"]
    /\ UNCHANGED << live, inputs, req, hdr, rw, cw, enc, h >>

Next ==
    \/ \E r \in live : ServeHTTP(r)
    \/ \E r \in live : HandlerSetContentEncoding(r)
    \/ \E r \in live : HandlerSetContentLength(r)
    \/ \E r \in live : HandlerSetContentType(r)
    \/ \E r \in live : HandlerWriteHeader(r)
    \/ \E r \in live : HandlerWrite(r)
    \/ \E r \in live : HandlerCapability(r)
    \/ \E r \in live : ConnBreak(r)
    \/ \E r \in live : HandlerExit(r)
    \/ \E r \in live : DeferClose(r)
    \/ \E r \in live : DeferPut(r)

Spec == Init /\ [][Next]_vars

SpecCaps == InitCaps /\ [][Next]_vars

\* The steps of requests whose handlers only write and return.
NextPool ==
    \/ \E r \in live : ServeHTTP(r)
    \/ \E r \in live : HandlerWrite(r)
    \/ \E r \in live : HandlerExit(r)
    \/ \E r \in live : DeferClose(r)
    \/ \E r \in live : DeferPut(r)

SpecPool == InitPool /\ [][NextPool]_vars

(* ---------------- properties ---------------- *)

\* Request r was given a compressWriter.
Intercepted(r) == h[r].w = "cw"

\* The wrapped handler of request r has called Write.
HasWritten(r) == h[r].written # << >>

\* The content length the first Write of r goes by: a positive Content-Length
\* set by the handler, else the length of the first chunk.
EffectiveLength(r) ==
    LET cl == Atoi(h[r].app.cl)
    IN IF cl > 0 THEN cl ELSE h[r].written[1].len

\* The content type the first Write of r goes by: the Content-Type set by the
\* handler, else the type sniffed from the first chunk.
EffectiveType(r) ==
    IF h[r].app.ct # "" THEN h[r].app.ct ELSE DetectContentType(h[r].written[1])

\* The events of kind k in a trace.
CountKind(tr, k) == Cardinality({ i \in 1..Len(tr) : tr[i][1] = k })

PosKind(tr, k) == CHOOSE i \in 1..Len(tr) : tr[i][1] = k

\* Request r has reset, written to or closed a gzip writer.
UsesEncoder(r) ==
    \E i \in 1..Len(trace[r]) : trace[r][i][1] \in { "Reset", "Write", "Close" }

\* The chunks passed to the gzip writer while serving r, in order.
EncoderInput(r) ==
    LET ws == SelectSeq(trace[r], LAMBDA ev : ev[1] = "Write")
    IN [i \in 1..Len(ws) |-> ws[i][3]]

\* What reaches the real writer when chunks ws are written to it unchanged.
RawOf(ws) == [i \in 1..Len(ws) |-> << "raw", ws[i] >>]

\* What reaches the real writer when chunks ws go through a gzip writer.
GzOf(ws) == [i \in 1..Len(ws) |-> << "gz", ws[i] >>]

OnlyRaw(body) == \A i \in 1..Len(body) : body[i][1] = "raw"

OnlyGz(body) == \A i \in 1..Len(body) : body[i][1] \in { "gz", "gzeos" }

\* The response of r is not gzipped by the middleware.
NotGzipped(r) == hdr[r].ce # "gzip" /\ ~cw[r].gzipUse /\ ~UsesEncoder(r)

\* C1: an intercepted response whose effective content length at the first
\* Write (a positive Content-Length, else the length of the first chunk) is
\* below gzippableMinSize never gets Content-Encoding: gzip and never uses
\* the gzip writer.
C1_SmallNeverGzipped ==
    \A r \in live :
        (Intercepted(r) /\ HasWritten(r) /\ EffectiveLength(r) < gzippableMinSize)
            => NotGzipped(r)

\* C2: an intercepted response whose content type at the first Write, set by
\* the handler or sniffed, has its primary token in notGzippableTypes never
\* gets Content-Encoding: gzip and never uses the gzip writer.
C2_DeniedTypeNeverGzipped ==
    \A r \in live :
        (Intercepted(r) /\ HasWritten(r)
            /\ PrimaryType(EffectiveType(r)) \in notGzippableTypes)
            => NotGzipped(r)

\* The case of C3: no Content-Encoding set by the handler, an effective length
\* of at least gzippableMinSize and a type outside notGzippableTypes.
MustGzip(r) ==
    /\ Intercepted(r) /\ HasWritten(r)
    /\ h[r].app.ce = ""
    /\ EffectiveLength(r) >= gzippableMinSize
    /\ EffectiveType(r) # ""
    /\ PrimaryType(EffectiveType(r)) \notin notGzippableTypes

\* C3: when the handler set no Content-Encoding, the effective length is at
\* least gzippableMinSize and the type is not denied, the first Write takes
\* the compressed path: from then on the real headers hold
\* Content-Encoding: gzip and no Content-Length.
C3_LargeGzippableIsGzipped ==
    \A r \in live :
        MustGzip(r) => (cw[r].gzipUse /\ hdr[r].ce = "gzip" /\ hdr[r].cl = "")

\* C3 witness: a Content-Length of 1400 set by the handler decided for gzip on
\* a first chunk of 1399 bytes, and was removed.
C3_Witness ==
    /\ MustGzip(1)
    /\ h[1].app.cl = "1400" /\ h[1].written[1].len = gzippableMinSize - 1
    /\ hdr[1].ce = "gzip" /\ hdr[1].cl = ""

\* C4: when the handler set a Content-Encoding before its first Write, that
\* value stays, Content-Length is not deleted, the gzip writer is never used
\* and every Write reaches the real writer unchanged.
C4_AlreadyEncodedUntouched ==
    \A r \in live :
        (Intercepted(r) /\ h[r].app.ce # "")
            => /\ hdr[r].ce = h[r].app.ce
               /\ hdr[r].cl = h[r].app.cl
               /\ ~cw[r].gzipUse /\ ~UsesEncoder(r)
               /\ OnlyRaw(rw[r].body)
               /\ ~rw[r].broken => rw[r].body = RawOf(h[r].written)

\* C4 witness: an already encoded response with a Content-Length of 1400 and
\* two chunks written, the first one large, has been served.
C4_Witness ==
    /\ Intercepted(1) /\ h[1].app.ce = "otherThanGzip" /\ h[1].app.cl = "1400"
    /\ Len(h[1].written) = 2 /\ h[1].written[1].len >= gzippableMinSize
    /\ rw[1].body = RawOf(h[1].written)
    /\ pc[1] = "done"

\* C5: when Accept-Encoding does not contain "gzip" the handler gets the
\* original writer: no gzip writer is taken from the pool, the bytes reach the
\* real writer as written and in order, and Content-Encoding and
\* Content-Length stay as the handler set them.
C5_NotAcceptedPassesThrough ==
    \A r \in live :
        (pc[r] # "idle" /\ ~Contains(req[r].ae, "gzip"))
            => /\ h[r].w = "rw" /\ ~cw[r].made
               /\ trace[r] = << >>
               /\ \A e \in Encs : ~enc[e].made
               /\ hdr[r].ce = h[r].app.ce
               /\ hdr[r].cl = h[r].app.cl
               /\ OnlyRaw(rw[r].body)
               /\ ~rw[r].broken => rw[r].body = RawOf(h[r].written)

\* C5 witness: a request accepting only "otherThanGzip" got a large HTML
\* response of two chunks, with a status and a Content-Length, unchanged.
C5_Witness ==
    /\ req[1].ae = "otherThanGzip" /\ pc[1] = "done"
    /\ h[1].app.cl = "1400" /\ h[1].preWH # << >>
    /\ Len(h[1].written) = 2 /\ h[1].written[1].len >= gzippableMinSize
    /\ h[1].written[1].sig = "html"
    /\ rw[1].body = RawOf(h[1].written)

\* C6: when the handler calls WriteHeader(s) on the compressWriter before any
\* Write and then writes, the status committed to the real writer is s, on
\* the compressed and on the passthrough branch.
C6_CachedStatusCommittedAtWrite ==
    \A r \in live :
        (Intercepted(r) /\ Len(h[r].preWH) = 1 /\ HasWritten(r))
            => rw[r].status = h[r].preWH[1]

\* C6 witness: a response with status 418 took the compressed branch.
C6_Witness ==
    /\ Intercepted(1) /\ h[1].preWH = << StatusTeapot >> /\ HasWritten(1)
    /\ cw[1].gzipUse /\ rw[1].status = StatusTeapot

\* C7: when the handler calls WriteHeader(s) and leaves without a Write, s is
\* committed to the real writer by the close() at the end of ServeHTTP.
C7_StatusWithoutWriteCommittedAtClose ==
    \A r \in live :
        (Intercepted(r) /\ h[r].preWH # << >> /\ ~HasWritten(r)
            /\ pc[r] \in { "deferPut", "done" })
            => rw[r].status = h[r].preWH[Len(h[r].preWH)]

\* C7 witness: a handler that only called WriteHeader(418) has returned and
\* ServeHTTP has finished.
C7_Witness ==
    /\ Intercepted(1) /\ h[1].preWH = << StatusTeapot >> /\ ~HasWritten(1)
    /\ pc[1] = "done" /\ rw[1].status = StatusTeapot

\* C8: on every exit of an intercepting ServeHTTP (return, failed write,
\* panic) close() is called exactly once and the borrowed gzip writer is put
\* back exactly once, close() first.
C8_CloseThenPutOnEveryExit ==
    \A r \in live :
        Intercepted(r)
            => /\ CountKind(trace[r], "Get") = 1
               /\ CountKind(trace[r], "close") <= 1
               /\ CountKind(trace[r], "Put") <= 1
               /\ pc[r] = "done"
                    => /\ CountKind(trace[r], "close") = 1
                       /\ CountKind(trace[r], "Put") = 1
                       /\ PosKind(trace[r], "close") < PosKind(trace[r], "Put")
                       /\ trace[r][PosKind(trace[r], "Put")][2]
                            = trace[r][PosKind(trace[r], "Get")][2]

\* C8 witness: ServeHTTP has finished after a handler that saw a write fail
\* on the compressed path and panicked.
C8_Witness ==
    /\ Intercepted(1) /\ pc[1] = "done"
    /\ h[1].exit = "panic" /\ h[1].ret = "err" /\ cw[1].gzipUse
    /\ CountKind(trace[1], "close") = 1 /\ CountKind(trace[1], "Put") = 1

C10_CompressedPathFeedsEncoder ==
    \A r \in live :
        (Intercepted(r) /\ cw[r].gzipUse)
            => /\ EncoderInput(r) = h[r].written
               /\ OnlyGz(rw[r].body)
               /\ CountKind(trace[r], "Reset") = 1
               /\ PosKind(trace[r], "Reset") < PosKind(trace[r], "Write")
               /\ CountKind(trace[r], "Close")
                    = (IF pc[r] \in { "deferPut", "done" } THEN 1 ELSE 0)
               /\ pc[r] \in { "deferPut", "done" }
                    => /\ \A i \in 1..Len(trace[r]) :
                            trace[r][i][1] = "Write"
                                => i < PosKind(trace[r], "Close")
                       /\ ~rw[r].broken
                            => rw[r].body
                                 = GzOf(h[r].written) \o << << "gzeos" >> >>

\* C10 witness: a compressed response of two different chunks has been
\* closed and its stream ended.
C10_Witness ==
    /\ Intercepted(1) /\ cw[1].gzipUse /\ pc[1] = "done"
    /\ Len(h[1].written) = 2 /\ h[1].written[1] # h[1].written[2]
    /\ rw[1].body = GzOf(h[1].written) \o << << "gzeos" >> >>

\* C11: from the moment the wrapped handler is called, on the path that
\* passes the request through and on the path that wraps the writer alike,
\* the Vary header holds the values it held before followed by
\* "Accept-Encoding".
C11_VaryAddedOnEveryPath ==
    \A r \in live :
        pc[r] # "idle"
            => hdr[r].vary = h[r].vary0 \o << "Accept-Encoding" >>

\* C11 witness: a request passed through and a Vary value that was present
\* before; the handler has returned.
C11_Witness ==
    /\ pc[1] = "done" /\ ~Intercepted(1)
    /\ h[1].vary0 = << "Cookie" >>
    /\ hdr[1].vary = << "Cookie", "Accept-Encoding" >>

\* C12: a request with a Sec-WebSocket-Key is passed through even when its
\* Accept-Encoding contains gzip: the handler gets the real writer, no gzip
\* writer is taken from the pool and the Content-Encoding is the one the
\* handler set itself.
C12_WebSocketPassesThrough ==
    \A r \in live :
        (pc[r] # "idle" /\ req[r].ws # "")
            => /\ ~Intercepted(r)
               /\ ~cw[r].made
               /\ trace[r] = << >>
               /\ hdr[r].ce = h[r].app.ce
               /\ ~rw[r].broken => rw[r].body = RawOf(h[r].written)

\* C12 witness: a WebSocket handshake that accepts gzip has been served with
\* a body large enough to be compressed.
C12_Witness ==
    /\ pc[1] = "done" /\ req[1].ws # "" /\ Contains(req[1].ae, "gzip")
    /\ h[1].written = << [len |-> gzippableMinSize, sig |-> "html"] >>
    /\ hdr[1].ce = "" /\ rw[1].body = RawOf(h[1].written)

\* Request r holds the gzip writer it took from the pool: ServeHTTP has
\* called Get and has not called Put yet.
HoldsEncoder(r) ==
    Intercepted(r) /\ pc[r] \in { "handler", "deferClose", "deferPut" }

\* C13: no gzip writer is held by two requests at once, and a gzip writer a
\* request holds is not idle in the pool.
C13_EncoderHeldByOneRequest ==
    \A r \in live :
        HoldsEncoder(r)
            => /\ cw[r].gzipWriter \notin pool
               /\ \A q \in live \ { r } :
                     HoldsEncoder(q) => cw[q].gzipWriter # cw[r].gzipWriter

\* C13 witness: two requests are compressing at once, each through a gzip
\* writer of its own.
C13_Witness ==
    /\ HoldsEncoder(1) /\ HoldsEncoder(2)
    /\ cw[1].gzipUse /\ cw[2].gzipUse
    /\ pc[1] = "handler" /\ pc[2] = "deferPut"
    /\ cw[1].gzipWriter # cw[2].gzipWriter

\* C14: on a wrapped writer no body byte reaches the real writer before the
\* status is committed, and the header map the status is committed with is
\* the final one: deleting Content-Length, setting Content-Encoding and
\* setting a sniffed Content-Type all come before the commit.
C14_HeadersThenStatusThenBody ==
    \A r \in live :
        Intercepted(r)
            => /\ rw[r].body # << >> => rw[r].status # 0
               /\ rw[r].nw > 0 => rw[r].status # 0
               /\ rw[r].status # 0 => rw[r].sent = hdr[r]
               /\ (rw[r].status # 0 /\ cw[r].gzipUse)
                    => rw[r].sent.ce = "gzip" /\ rw[r].sent.cl = ""

\* C14 witness: a compressed response with a cached status, a Content-Length
\* the first Write deleted and a Content-Type it sniffed; the status went out
\* with the changed headers, and the body after it.
C14_Witness ==
    /\ Intercepted(1) /\ cw[1].gzipUse
    /\ h[1].preWH = << StatusTeapot >>
    /\ h[1].app.cl = "1400" /\ h[1].app.ct = ""
    /\ rw[1].status = StatusTeapot /\ rw[1].body # << >>
    /\ rw[1].sent.ce = "gzip" /\ rw[1].sent.cl = ""
    /\ rw[1].sent.ct = "text/html; charset=utf-8"

Last(seq) == seq[Len(seq)]

\* The status the first Write of r commits: the one cached by the last
\* WriteHeader before it, 200 when there was none.
FirstWriteStatus(r) ==
    IF h[r].preWH # << >> THEN Last(h[r].preWH) ELSE StatusOK

\* The WriteHeader calls the first Write of r makes on the real writer.
FirstWriteCalls(r) ==
    IF h[r].preWH # << >> THEN << Last(h[r].preWH) >> ELSE << >>

\* C15, as claimed: the WriteHeader calls made on a wrapped writer after its
\* first Write are the last WriteHeader calls the real writer received.
C15_LateWriteHeaderForwarded ==
    \A r \in live :
        (Intercepted(r) /\ h[r].postWH # << >>)
            => /\ Len(rw[r].wh) >= Len(h[r].postWH)
               /\ SubSeq(rw[r].wh, Len(rw[r].wh) - Len(h[r].postWH) + 1,
                         Len(rw[r].wh)) = h[r].postWH

\* C15, amended: a WriteHeader call made on a wrapped writer after its first
\* Write only replaces the cached status; the real writer receives no
\* WriteHeader call for it, then or at close(), and keeps the status the
\* first Write committed.
C15_LateWriteHeaderOnlyCached ==
    \A r \in live :
        (Intercepted(r) /\ h[r].postWH # << >>)
            => /\ cw[r].status = Last(h[r].postWH)
               /\ rw[r].wh = FirstWriteCalls(r)
               /\ rw[r].status = FirstWriteStatus(r)

\* C15 witness: WriteHeader(418) came after the first Write of a response
\* served to its end; it is cached and the real writer has status 200.
C15_Witness ==
    /\ Intercepted(1) /\ pc[1] = "done"
    /\ h[1].preWH = << >> /\ h[1].postWH = << StatusTeapot >>
    /\ cw[1].status = StatusTeapot
    /\ rw[1].wh = << >> /\ rw[1].status = StatusOK

\* C16: on a wrapped writer the detection has run exactly when a Write has
\* happened; a step taken after it has run leaves gzipDetect true, gzipUse
\* as it was and the headers as they were, and resets no gzip writer; while
\* it has not run, gzipUse is false, the headers are the handler's own and no
\* gzip writer has been reset.
C16_DetectionRunsOnce ==
    [][\A r \in live :
          h'[r].w = "cw"
              => /\ cw'[r].gzipDetect = (h'[r].written # << >>)
                 /\ CountKind(trace'[r], "Reset") <= 1
                 /\ cw[r].gzipDetect
                      => /\ cw'[r].gzipDetect
                         /\ cw'[r].gzipUse = cw[r].gzipUse
                         /\ hdr'[r] = hdr[r]
                         /\ CountKind(trace'[r], "Reset")
                              = CountKind(trace[r], "Reset")
                 /\ ~cw'[r].gzipDetect
                      => /\ ~cw'[r].gzipUse
                         /\ hdr'[r].ce = h'[r].app.ce
                         /\ hdr'[r].cl = h'[r].app.cl
                         /\ hdr'[r].ct = h'[r].app.ct
                         /\ CountKind(trace'[r], "Reset") = 0]_vars

\* C16 witness: after a first Write that chose to compress came a Write of a
\* chunk too small to be compressed on its own and a WriteHeader; the
\* response is still compressed.
C16_Witness ==
    /\ Intercepted(1) /\ cw[1].gzipDetect /\ cw[1].gzipUse
    /\ h[1].written = << [len |-> gzippableMinSize, sig |-> "html"],
                         [len |-> gzippableMinSize - 1, sig |-> "html"] >>
    /\ h[1].postWH # << >>
    /\ CountKind(trace[1], "Reset") = 1

\* C17: on a wrapped writer no status is committed before the first Write;
\* from the first Write on the committed status is the one cached before it,
\* 200 when none was, the real writer has received at most one WriteHeader
\* call, and no later step, close() included, changes the committed status
\* or calls WriteHeader on the real writer again.
C17_StatusCommittedOnceAtFirstWrite ==
    [][\A r \in live :
          h'[r].w = "cw"
              => /\ (h'[r].written = << >> /\ pc'[r] = "handler")
                      => rw'[r].status = 0 /\ rw'[r].wh = << >>
                 /\ h'[r].written # << >>
                      => /\ rw'[r].status = FirstWriteStatus(r)'
                         /\ rw'[r].wh = FirstWriteCalls(r)'
                         /\ Len(rw'[r].wh) <= 1
                 /\ rw[r].status # 0
                      => /\ rw'[r].status = rw[r].status
                         /\ rw'[r].wh = rw[r].wh]_vars

\* C17 witness: WriteHeader(418), a Write, WriteHeader(200), and the handler
\* has returned: the real writer got the one call WriteHeader(418).
C17_Witness ==
    /\ Intercepted(1) /\ pc[1] = "done"
    /\ h[1].preWH = << StatusTeapot >> /\ h[1].postWH = << StatusOK >>
    /\ Len(h[1].written) = 1
    /\ rw[1].status = StatusTeapot /\ rw[1].wh = << StatusTeapot >>

\* C18: the step of close() closes the gzip writer exactly when the response
\* is compressed. For a response that never wrote or was passed through, the
\* step leaves every gzip writer as it was, no Reset, Write or Close of the
\* gzip writer has happened up to and including it, and it sends nothing on
\* the real writer.
C18_CloseFinalizesIffCompressed ==
    [][\A r \in live :
          (pc[r] = "deferClose" /\ pc'[r] = "deferPut")
              => IF cw[r].gzipUse
                 THEN /\ CountKind(trace[r], "Close") = 0
                      /\ CountKind(trace'[r], "Close") = 1
                      /\ trace'[r][Len(trace'[r])][2] = cw[r].gzipWriter
                 ELSE /\ enc' = enc
                      /\ \A i \in 1..Len(trace'[r]) :
                            trace'[r][i][1] \in { "Get", "close" }
                      /\ rw'[r].body = rw[r].body
                      /\ rw'[r].nw = rw[r].nw]_vars

\* C18 witness: close() has run on a response that was passed through; the
\* gzip writer taken from the pool is as gzip.NewWriter(nil) made it.
C18_Witness ==
    /\ Intercepted(1) /\ pc[1] = "deferPut"
    /\ cw[1].gzipDetect /\ ~cw[1].gzipUse
    /\ h[1].written # << >> /\ rw[1].body = RawOf(h[1].written)
    /\ trace[1] = << << "Get", cw[1].gzipWriter >>, << "close" >> >>
    /\ enc[cw[1].gzipWriter] = NewGzipWriter

\* C19: Put is the last call ServeHTTP makes for a request: once it has put
\* its gzip writer back, the calls made for the request end with that one
\* Put, after every Write and the Close of the gzip writer, and no further
\* call is made for it; and a step changes a gzip writer only on behalf of
\* the request that holds it.
C19_NothingAfterPut ==
    [][/\ \A r \in live :
            (h'[r].w = "cw" /\ CountKind(trace'[r], "Put") > 0)
                => /\ pc'[r] = "done"
                   /\ CountKind(trace'[r], "Put") = 1
                   /\ trace'[r][Len(trace'[r])] = << "Put", cw'[r].gzipWriter >>
                   /\ cw'[r].gzipUse => CountKind(trace'[r], "Close") = 1
       /\ \A r \in live :
            (h[r].w = "cw" /\ pc[r] = "done")
                => trace'[r] = trace[r] /\ cw'[r] = cw[r]
       /\ \A e \in Encs :
            enc'[e] # enc[e]
                => \E r \in live : HoldsEncoder(r)' /\ cw'[r].gzipWriter = e
      ]_vars

\* C19 witness: request 1 compressed through a gzip writer and put it back;
\* request 2 took the same gzip writer and is compressing through it.
C19_Witness ==
    /\ Intercepted(1) /\ pc[1] = "done" /\ cw[1].gzipUse
    /\ HoldsEncoder(2) /\ cw[2].gzipUse /\ pc[2] = "handler"
    /\ cw[2].gzipWriter = cw[1].gzipWriter
    /\ Len(h[2].written) = 2
    /\ trace[1][Len(trace[1])] = << "Put", cw[1].gzipWriter >>

\* What the gzip writer returned to the last Write of r on the compressed
\* path.
LastGzWriteRet(r) ==
    Last(SelectSeq(trace[r], LAMBDA ev : ev[1] = "Write"))[4]

\* What gzip.Writer.Close() returned to close() of r.
GzCloseRetOf(r) == trace[r][PosKind(trace[r], "Close")][3]

\* On a wrapped writer, Write returns what the writer it hands the bytes to
\* returned, and hands each chunk on once.
WriteSurfaced(r) ==
    IF cw[r].gzipUse
    THEN /\ h[r].ret = LastGzWriteRet(r)
         /\ EncoderInput(r) = h[r].written
    ELSE /\ h[r].ret = rw[r].lastRet
         /\ rw[r].nw = Len(h[r].written)

FirstChunk(r) == h[r].written[1]

\* C21, as claimed: after the first Write of a wrapped response for which
\* the handler set no Content-Encoding, the Content-Type is the one the
\* handler set or, when it set none, the type sniffed from the first chunk,
\* and the status was committed with it.
C21_TypeSniffedWhateverTheOutcome ==
    \A r \in live :
        (Intercepted(r) /\ HasWritten(r) /\ h[r].app.ce = "")
            => /\ hdr[r].ct = (IF h[r].app.ct # "" THEN h[r].app.ct
                               ELSE DetectContentType(FirstChunk(r)))
               /\ rw[r].sent.ct = hdr[r].ct

\* C21, amended: after the first Write of a wrapped response the
\* Content-Type is the one the handler set; when it set none and no
\* Content-Encoding, it is the type sniffed from the first chunk if the
\* Content-Length is positive or the chunk has gzippableMinSize bytes or
\* more, and stays unset by the middleware otherwise. The status was
\* committed with it.
C21_TypeSniffedPastLengthCheck ==
    \A r \in live :
        (Intercepted(r) /\ HasWritten(r))
            => /\ hdr[r].ct =
                    (IF h[r].app.ct # "" THEN h[r].app.ct
                     ELSE IF /\ h[r].app.ce = ""
                             /\ \/ Atoi(h[r].app.cl) > 0
                                \/ FirstChunk(r).len >= gzippableMinSize
                          THEN DetectContentType(FirstChunk(r))
                          ELSE "")
               /\ rw[r].sent.ct = hdr[r].ct

\* C21 witness: a first chunk of a PDF with no headers set by the handler;
\* the type was sniffed and set, and the response is not compressed.
C21_Witness ==
    /\ Intercepted(1) /\ HasWritten(1)
    /\ h[1].app.ct = "" /\ h[1].app.ce = "" /\ h[1].app.cl = ""
    /\ FirstChunk(1) = [len |-> gzippableMinSize + 5, sig |-> "pdf"]
    /\ ~cw[1].gzipUse
    /\ hdr[1].ct = "application/pdf" /\ rw[1].sent.ct = "application/pdf"

\* What the real writer of r holds when only the handler of r has written to
\* it, through the compressWriter of r.
OwnBody(r) ==
    IF cw[r].gzipUse
    THEN GzOf(h[r].written)
           \o (IF CountKind(trace[r], "Close") > 0
               THEN << << "gzeos" >> >> ELSE << >>)
    ELSE RawOf(h[r].written)

\* C22: with gzip writers shared through the pool, the real writer of a
\* wrapped request holds what its own handler wrote and, once closed, its own
\* end of stream, and has received no other Write; every Write and Close of
\* a gzip writer made for a request comes after a Reset made for that
\* request, and the gzip writer a compressing request holds is bound to the
\* real writer of that request.
C22_NoLeakAcrossRequests ==
    \A r \in live :
        Intercepted(r)
            => /\ rw[r].body = OwnBody(r)
               /\ rw[r].nw = Len(OwnBody(r))
               /\ \A i \in 1..Len(trace[r]) :
                     trace[r][i][1] \in { "Write", "Close" }
                         => \E j \in 1..(i - 1) :
                              trace[r][j] = << "Reset", cw[r].gzipWriter >>
               /\ (HoldsEncoder(r) /\ cw[r].gzipUse)
                    => enc[cw[r].gzipWriter].w = r

\* C22 witness: request 2 compressed two chunks through the gzip writer that
\* request 1 had closed and put back; each real writer holds its own stream.
C22_Witness ==
    /\ Intercepted(1) /\ Intercepted(2) /\ pc[1] = "done" /\ pc[2] = "done"
    /\ cw[1].gzipUse /\ cw[2].gzipUse
    /\ cw[1].gzipWriter = cw[2].gzipWriter
    /\ Len(h[1].written) = 1 /\ Len(h[2].written) = 2
    /\ enc[cw[2].gzipWriter].w = 2
    /\ rw[1].body = GzOf(h[1].written) \o << << "gzeos" >> >>
    /\ rw[2].body = GzOf(h[2].written) \o << << "gzeos" >> >>

\* C23: while the handler of a wrapped request has called nothing but
\* WriteHeader, the real writer has no status, has received no WriteHeader
\* and no Write and holds no body; and once the first Write, or close()
\* without a Write, has come after those calls, the committed status is the
\* one of the last of them, passed to the real writer in one WriteHeader
\* call.
C23_LastWriteHeaderWins ==
    \A r \in live :
        Intercepted(r)
            => /\ (pc[r] \in { "handler", "deferClose" } /\ ~HasWritten(r))
                    => /\ rw[r].status = 0 /\ rw[r].wh = << >>
                       /\ rw[r].nw = 0 /\ rw[r].body = << >>
               /\ (h[r].preWH # << >>
                      /\ (HasWritten(r) \/ pc[r] \in { "deferPut", "done" }))
                    => /\ rw[r].status = Last(h[r].preWH)
                       /\ rw[r].wh = << Last(h[r].preWH) >>

\* C23 witness: WriteHeader(200), WriteHeader(418), then a Write: the real
\* writer got WriteHeader(418) alone.
C23_Witness ==
    /\ Intercepted(1) /\ Len(h[1].written) = 1
    /\ h[1].preWH = << StatusOK, StatusTeapot >>
    /\ rw[1].status = StatusTeapot /\ rw[1].wh = << StatusTeapot >>

\* C24: on a compressWriter gzipUse is set only with gzipDetect; and with
\* gzipUse set, the gzip writer has been reset once for this request and is
\* bound to its real writer for as long as the request holds it, and the
\* headers, as they are and as they were committed, carry
\* Content-Encoding: gzip.
C24_FlagsConsistent ==
    \A r \in live :
        (Intercepted(r) /\ cw[r].gzipUse)
            => /\ cw[r].gzipDetect
               /\ CountKind(trace[r], "Reset") = 1
               /\ HoldsEncoder(r) => enc[cw[r].gzipWriter].w = r
               /\ hdr[r].ce = "gzip"
               /\ rw[r].sent.ce = "gzip"

\* C24 witness: a handler in the middle of a compressed response of three
\* chunks.
C24_Witness ==
    /\ Intercepted(1) /\ pc[1] = "handler"
    /\ cw[1].gzipDetect /\ cw[1].gzipUse
    /\ Len(h[1].written) = 3
    /\ enc[cw[1].gzipWriter].w = 1
    /\ hdr[1].ce = "gzip" /\ rw[1].sent.ce = "gzip"

====
